---- MODULE Spec2Model ----
(***************************************************************************)
(* A model of bot.py: the Wargaming credential manager (WargamingAuth),    *)
(* the reserve tracker and the poll-and-notify cycle of DiscordBot, and    *)
(* the OAuth callback handler.  Two asyncio tasks share the bot object:    *)
(* the tasks.loop timer and the aiohttp request handler.  A task runs      *)
(* without interruption between two suspension points (an awaited Discord  *)
(* send); requests.get/post block the event loop and are not suspension    *)
(* points.  Each action below is one such uninterrupted run.               *)
(***************************************************************************)
EXTENDS Integers, Sequences, FiniteSets, TLC

VARIABLES
    now,            \* time.time(), whole seconds
    cred,           \* WargamingAuth: access_token, refresh_token, expires_at
    credFile,       \* contents of TOKEN_FILE
    reserves,       \* DiscordBot.last_active_reserves
    reservesFile,   \* 'announced_reserves' of RESERVES_STATE_FILE
    pc,             \* per task: where it is suspended ("idle" when not running)
    msg,            \* per task: newly_activated of the announcement being sent
    loopRunning,    \* the tasks.loop timer is still scheduled
    ticks,          \* how many times the clock has advanced
    diskOk,         \* the data directory accepts writes
    ev,             \* what the last step did (calls, writes, logs, results)
    hist            \* what has happened so far, where a property needs it

vars == <<now, cred, credFile, reserves, reservesFile, pc, msg, loopRunning,
          ticks, diskOk, ev, hist>>

-----------------------------------------------------------------------------
(* Bounds of the model *)

MaxTicks == 2
MaxSnap == 2

(* Program constants *)

TokenMargin == 300
GraceSeconds == 7200
WarnSeconds == 86400
DefaultLifetime == 86400

(* Sampled inputs *)

Deltas == {7200}
Reserves ==
    {[name |-> <<"G">>, activated_at |-> 0],
     [name |-> <<"B", "_", "P">>, activated_at |-> 0]}
Lifetimes == {7200}

None == "None"
Tasks == {"timer", "cb"}

-----------------------------------------------------------------------------
(* Strings are sequences of characters. *)

DigitChars == <<"0", "1", "2", "3", "4", "5", "6", "7", "8", "9">>

IsDigit(c) == \E i \in 1..10 : DigitChars[i] = c

DigitValue(c) == (CHOOSE i \in 1..10 : DigitChars[i] = c) - 1

RECURSIVE Str(_)
Str(n) ==
    IF n < 10 THEN <<DigitChars[n + 1]>>
    ELSE Str(n \div 10) \o <<DigitChars[(n % 10) + 1]>>

RECURSIVE Split(_, _)
Split(s, sep) ==
    IF \A i \in 1..Len(s) : s[i] # sep THEN <<s>>
    ELSE LET k == CHOOSE i \in 1..Len(s) :
                      s[i] = sep /\ \A j \in 1..(i - 1) : s[j] # sep
         IN <<SubSeq(s, 1, k - 1)>> \o Split(SubSeq(s, k + 1, Len(s)), sep)

IntOk(s) == Len(s) > 0 /\ \A i \in 1..Len(s) : IsDigit(s[i])

RECURSIVE IntOf(_)
IntOf(s) ==
    IF Len(s) = 0 THEN 0
    ELSE 10 * IntOf(SubSeq(s, 1, Len(s) - 1)) + DigitValue(s[Len(s)])

ReserveId(name, activated_at) == name \o <<"_">> \o Str(activated_at)

-----------------------------------------------------------------------------
(* WargamingAuth *)

NoCred == [access |-> None, refresh |-> None, expires |-> <<>>]

Truthy(opt) == opt # <<>> /\ opt[1] # 0

NoResponse == [kind |-> "none", access |-> None, refresh |-> None, lifetime |-> 0]

RefreshKinds ==
    {"ok", "error", "transport", "no_access", "no_refresh", "bad_expiry"}

RefreshResponses ==
    {[kind |-> k, access |-> "A2", refresh |-> "R2", lifetime |-> l] :
        k \in RefreshKinds, l \in Lifetimes}

SaveTokens(c, file, writeOk) == IF writeOk THEN c ELSE file

RefreshAccessToken(c, file, t, r, writeOk) ==
    CASE r.kind = "transport" ->
            [cred |-> c, file |-> file, exc |-> "RequestError", write |-> "none"]
      [] r.kind = "error" ->
            [cred |-> c, file |-> file, exc |-> "Exception", write |-> "none"]
      [] r.kind = "no_access" ->
            [cred |-> c, file |-> file, exc |-> "KeyError", write |-> "none"]
      [] r.kind = "no_refresh" ->
            [cred |-> [c EXCEPT !.access = r.access],
             file |-> file, exc |-> "KeyError", write |-> "none"]
      [] r.kind = "bad_expiry" ->
            [cred |-> [c EXCEPT !.access = r.access, !.refresh = r.refresh],
             file |-> file, exc |-> "TypeError", write |-> "none"]
      [] OTHER ->
            LET c2 == [access |-> r.access, refresh |-> r.refresh,
                       expires |-> <<t + r.lifetime>>]
            IN [cred |-> c2, file |-> SaveTokens(c2, file, writeOk),
                exc |-> "none",
                write |-> IF writeOk THEN "ok" ELSE "fail"]

(* The stored token is used up to its expiry, without the margin. *)
TokenFreshNoMargin(c, t) ==
    c.access # None /\ Truthy(c.expires) /\ t < c.expires[1]

TokenFresh(c, t) ==
    c.access # None /\ Truthy(c.expires) /\ t < c.expires[1] - TokenMargin

(* except Exception (line 145) absorbs whatever the refresh raises. *)
RefreshCaught(exc) == exc # "none"

GetValidToken(c, file, t, r, writeOk) ==
    IF TokenFresh(c, t)
    THEN [cred |-> c, file |-> file, ret |-> c.access, calls |-> 0,
          rexc |-> "none", exc |-> "none", write |-> "none", logs |-> 0]
    ELSE IF c.refresh # None
    THEN LET rr == RefreshAccessToken(c, file, t, r, writeOk)
         IN [cred |-> rr.cred, file |-> rr.file,
             ret |-> IF rr.exc = "none" THEN rr.cred.access ELSE None,
             calls |-> 1, rexc |-> rr.exc,
             exc |-> IF RefreshCaught(rr.exc) THEN "none" ELSE rr.exc,
             write |-> rr.write,
             logs |-> IF RefreshCaught(rr.exc) THEN 1 ELSE 0]
    ELSE [cred |-> c, file |-> file, ret |-> None, calls |-> 0,
          rexc |-> "none", exc |-> "none", write |-> "none", logs |-> 0]

-----------------------------------------------------------------------------
(* Reserve tracking *)

Entries ==
    {[name |-> r.name, activated_at |-> r.activated_at, status |-> "active"] :
        r \in Reserves}
    \cup {[name |-> <<"G">>, activated_at |-> 0, status |-> st] :
            st \in {"inactive", "missing"}}

SeqsUpTo(S, n) == UNION {[1..k -> S] : k \in 0..n}

Snapshots == SeqsUpTo(Entries, MaxSnap)

(* A wider sample of snapshots, for the cycles that record what they fetched. *)
WideEntries ==
    {[name |-> n, activated_at |-> a, status |-> st] :
        n \in {<<"G">>, <<"H">>}, a \in {0, 300},
        st \in {"active", "inactive"}}
    \cup {[name |-> <<"G">>, activated_at |-> 0, status |-> "missing"]}

WideSnapshots == SeqsUpTo(WideEntries, MaxSnap)

WideIds ==
    {ReserveId(e.name, e.activated_at) : e \in WideEntries}

SaveReservesState(state, file, writeOk) == IF writeOk THEN state ELSE file

(* The second '_'-separated field of an id, as int() reads it. *)
IdFieldOk(id) == Len(Split(id, "_")) >= 2 /\ IntOk(Split(id, "_")[2])

IdField(id) == IntOf(Split(id, "_")[2])

IsExpired(id, current_time) == IdField(id) < current_time - GraceSeconds

CleanupExpiredReserves(last, file, current_time, writeOk) ==
    IF \E id \in last : ~IdFieldOk(id)
    THEN [reserves |-> last, file |-> file, removed |-> {},
          exc |-> "ValueError", write |-> "none"]
    ELSE LET expired == {id \in last : IsExpired(id, current_time)}
         IN IF expired # {}
            THEN [reserves |-> last \ expired,
                  file |-> SaveReservesState(last \ expired, file, writeOk),
                  removed |-> expired, exc |-> "none",
                  write |-> IF writeOk THEN "ok" ELSE "fail"]
            ELSE [reserves |-> last, file |-> file, removed |-> {},
                  exc |-> "none", write |-> "none"]

(* An entry is new when no earlier entry of this snapshot had its id. *)
IsNewInSnapshot(id, last, current) == id \notin current

(* The for loop over data["data"]: acc is (current_active, newly_activated). *)
IsNew(id, last, current) == id \notin last

RECURSIVE DiffLoop(_, _, _, _)
DiffLoop(last, snap, i, acc) ==
    IF i > Len(snap) THEN acc
    ELSE LET e == snap[i] IN
         IF e.status = "missing"
         THEN [acc EXCEPT !.exc = "KeyError"]
         ELSE IF e.status = "active"
         THEN LET id == ReserveId(e.name, e.activated_at) IN
              DiffLoop(last, snap, i + 1,
                  [current |-> acc.current \cup {id},
                   newly |-> IF IsNew(id, last, acc.current)
                             THEN Append(acc.newly, e) ELSE acc.newly,
                   exc |-> "none"])
         ELSE DiffLoop(last, snap, i + 1, acc)

(* The diff compares against nothing: every active entry counts as new. *)
DiffForgetful(last, snap) ==
    DiffLoop({}, snap, 1, [current |-> {}, newly |-> <<>>, exc |-> "none"])

Diff(last, snap) ==
    DiffLoop(last, snap, 1, [current |-> {}, newly |-> <<>>, exc |-> "none"])

(* The tracking set is rewritten on every cycle. *)
TrackingAlwaysChanged(current, last) == TRUE

TrackingChanged(current, last) == current # last

(* The tracking set is left for later: nothing is replaced or saved. *)
UpdateTrackingSkipped(current, last, file, writeOk) ==
    [reserves |-> last, file |-> file, write |-> "none"]

UpdateTracking(current, last, file, writeOk) ==
    IF TrackingChanged(current, last)
    THEN [reserves |-> current,
          file |-> SaveReservesState(current, file, writeOk),
          write |-> IF writeOk THEN "ok" ELSE "fail"]
    ELSE [reserves |-> last, file |-> file, write |-> "none"]

(* The reply to requests.get: no reply at all, or a status and a body. *)
NoFetch == [kind |-> "none", status |-> 0]

FetchFailures ==
    {[kind |-> "transport", status |-> 0],
     [kind |-> "nojson", status |-> 503],
     [kind |-> "nodata", status |-> 503],
     [kind |-> "nodata", status |-> 200]}

FetchOk == [kind |-> "data", status |-> 200]

(* Lines 349-352: what the request raises, or whether the diff is entered. *)
FetchOutcome(f) ==
    CASE f.kind = "transport" -> "ConnectionError"
      [] f.kind = "nojson" -> "JSONDecodeError"
      [] f.status = 200 /\ f.kind = "data" -> "diff"
      [] OTHER -> "skip"

-----------------------------------------------------------------------------
(* What one step did.  Every action overwrites ev. *)

NoInput == [status |-> None, access |-> None, refresh |-> None, expires |-> <<>>]

Ev0(t, op) ==
    [task |-> t, op |-> op, cbin |-> NoInput, http |-> 0, dm |-> "none",
     tok |-> "n/a", rresp |-> NoResponse, calls |-> 0, rexc |-> "none",
     tokexc |-> "none", errlog |-> FALSE,
     credWrite |-> "none", cleanupRan |-> FALSE, removed |-> {},
     cleanupWrite |-> "none", afterCleanup |-> {}, gets |-> 0,
     fresp |-> NoFetch, diffRan |-> FALSE, current |-> {}, newly |-> <<>>,
     trackWrite |-> "none", logs |-> 0, exc |-> "none", escaped |-> FALSE,
     ended |-> FALSE,
     snap |-> <<>>, prevNewly |-> <<>>]

(* The history of a run: whether the last get_valid_token returned None     *)
(* with no completed authorization since, and the ids delivered to the     *)
(* channel so far.  It is kept only in the runs whose mode asks for it.    *)
NoHist == [mode |-> "off", unauth |-> FALSE, announced |-> {}]

NewlyIds(newly) ==
    {ReserveId(newly[i].name, newly[i].activated_at) : i \in 1..Len(newly)}

Record(h, e) ==
    CASE h.mode = "auth" ->
            [h EXCEPT !.unauth =
                IF e.op = "callback" /\ e.credWrite # "none" THEN FALSE
                ELSE IF e.tok = None THEN TRUE
                ELSE @]
      [] h.mode = "announce" ->
            [h EXCEPT !.announced =
                IF e.op = "announce_sent" THEN @ \cup NewlyIds(e.newly)
                ELSE @]
      [] OTHER -> h

-----------------------------------------------------------------------------
(* fetch_and_post_reserves, cut at its suspension points *)

(* Only the network errors are caught. *)
CycleCatchesNetworkOnly(exc) ==
    exc \in {"ConnectionError", "JSONDecodeError", "HTTPException"}

(* except Exception (line 394) catches every exception the body raises. *)
CycleCatches(exc) == exc # "none"

(* The coroutine returns or raises: the timer loop ends on a raise, the      *)
(* callback handler answers 500 on one (line 320) and 200 otherwise.        *)
EndCycle(t, e, exc) ==
    LET caught == CycleCatches(exc)
        escaped == exc # "none" /\ ~caught
    IN /\ pc' = [pc EXCEPT ![t] = "idle"]
       /\ msg' = [msg EXCEPT ![t] = <<>>]
       /\ loopRunning' = IF t = "timer" /\ escaped THEN FALSE ELSE loopRunning
       /\ ev' = [e EXCEPT !.exc = exc, !.ended = TRUE, !.escaped = escaped,
                          !.errlog = caught,
                          !.logs = @ + (IF caught \/ (escaped /\ t = "cb")
                                        THEN 1 ELSE 0),
                          !.http = IF t # "cb" THEN 0
                                   ELSE IF escaped THEN 500 ELSE 200]

Suspend(t, e, at, m) ==
    /\ pc' = [pc EXCEPT ![t] = at]
    /\ msg' = [msg EXCEPT ![t] = m]
    /\ ev' = e
    /\ UNCHANGED loopRunning

(* Lines 381-392 *)
DiffStage(t, e, cl, snap) ==
    LET d == Diff(cl.reserves, snap) IN
    IF d.exc # "none"
    THEN /\ reserves' = cl.reserves
         /\ reservesFile' = cl.file
         /\ EndCycle(t, [e EXCEPT !.diffRan = TRUE], d.exc)
    ELSE LET u == UpdateTracking(d.current, cl.reserves, cl.file, diskOk)
             e1 == [e EXCEPT !.diffRan = TRUE, !.current = d.current,
                             !.newly = d.newly, !.trackWrite = u.write]
         IN /\ reserves' = u.reserves
            /\ reservesFile' = u.file
            /\ IF d.newly # <<>>
               THEN \E channel \in BOOLEAN :
                        IF channel
                        THEN Suspend(t, e1, "announce_send", d.newly)
                        ELSE EndCycle(t, e1, "none")
               ELSE EndCycle(t, e1, "none")

(* The data the API may answer with: in a repeated cycle, what it answered  *)
(* the cycle before.                                                        *)
Answers(e, probe) ==
    IF ~probe THEN Snapshots
    ELSE IF e.op = "repeat" THEN {ev.snap, <<>>}
    ELSE WideSnapshots

(* Lines 349-352 *)
FetchStage(t, e, cl, probe) ==
    \E f \in FetchFailures \cup {FetchOk}, snap \in Answers(e, probe) :
        LET out == FetchOutcome(f)
            e1 == [e EXCEPT !.gets = @ + 1, !.fresp = f,
                            !.snap = IF probe THEN snap ELSE <<>>]
        IN /\ (out # "diff") => snap = <<>>
           /\ IF out = "diff" THEN DiffStage(t, e1, cl, snap)
              ELSE /\ reserves' = cl.reserves
                   /\ reservesFile' = cl.file
                   /\ EndCycle(t, e1, IF out = "skip" THEN "none" ELSE out)

(* Lines 339-340 *)
CleanupStage(t, e, probe) ==
    LET cl == CleanupExpiredReserves(reserves, reservesFile, now, diskOk)
        e1 == [e EXCEPT !.cleanupRan = TRUE, !.removed = cl.removed,
                        !.cleanupWrite = cl.write,
                        !.afterCleanup = cl.reserves]
    IN IF cl.exc # "none"
       THEN /\ reserves' = cl.reserves
            /\ reservesFile' = cl.file
            /\ EndCycle(t, e1, cl.exc)
       ELSE FetchStage(t, e1, cl, probe)

(* The early return is missing. *)
NeverNeedsReauth(token) == FALSE

(* if not access_token: ... return (lines 335-337) *)
NeedsReauth(token) == token = None

(* Lines 334-337 *)
TokenStage(t, e, probe) ==
    \E r \in RefreshResponses \cup {NoResponse} :
        LET g == GetValidToken(cred, credFile, now, r, diskOk)
            e1 == [e EXCEPT !.tok = g.ret, !.rresp = r, !.calls = g.calls,
                            !.rexc = g.rexc, !.tokexc = g.exc,
                            !.credWrite = g.write,
                            !.logs = @ + g.logs]
        IN /\ (g.calls = 0) <=> (r = NoResponse)
           /\ cred' = g.cred
           /\ credFile' = g.file
           /\ IF g.exc # "none"
              THEN /\ UNCHANGED <<reserves, reservesFile>>
                   /\ EndCycle(t, e1, g.exc)
              ELSE IF NeedsReauth(g.ret)
              THEN /\ Suspend(t, [e1 EXCEPT !.dm = "reauth"], "reauth_send", <<>>)
                   /\ UNCHANGED <<reserves, reservesFile>>
              ELSE CleanupStage(t, e1, probe)

(* Lines 327-332 *)
ExpiresSoon(c, t) == Truthy(c.expires) /\ c.expires[1] - t < WarnSeconds

FetchAndPostReserves(t, e, probe) ==
    IF ExpiresSoon(cred, now)
    THEN /\ Suspend(t, [e EXCEPT !.dm = "warn"], "warn_send", <<>>)
         /\ UNCHANGED <<cred, credFile, reserves, reservesFile>>
    ELSE TokenStage(t, e, probe)

-----------------------------------------------------------------------------
(* handle_oauth_callback *)

CallbackInputs ==
    {[status |-> st, access |-> a, refresh |-> r, expires |-> x] :
        st \in {"ok", "error"}, a \in {None, "A1"},
        r \in {None, "R1"},
        x \in {<<>>, Str(0), Str(7500), <<"s", "o", "o", "n">>}}

(* 'or' and 'and' confused in the validation. *)
CallbackValidEither(in) == in.status = "ok" \/ in.access \notin {None, ""}

(* Line 301 *)
CallbackValid(in) == in.status = "ok" /\ in.access \notin {None, ""}

(* Lines 306-309: three assignments, the third may raise, then the save. *)
CompleteAuthorization(c, file, in, t, writeOk) ==
    IF in.expires # <<>> /\ ~IntOk(in.expires)
    THEN [cred |-> [c EXCEPT !.access = in.access, !.refresh = in.refresh],
          file |-> file, exc |-> "ValueError", write |-> "none"]
    ELSE LET c2 == [access |-> in.access, refresh |-> in.refresh,
                    expires |-> IF in.expires # <<>>
                                THEN <<IntOf(in.expires)>>
                                ELSE <<t + DefaultLifetime>>]
         IN [cred |-> c2, file |-> SaveTokens(c2, file, writeOk),
             exc |-> "none", write |-> IF writeOk THEN "ok" ELSE "fail"]

HandleOauthCallback ==
    /\ pc["cb"] = "idle"
    /\ \E in \in CallbackInputs, channel \in BOOLEAN :
        LET e == [Ev0("cb", "callback") EXCEPT !.cbin = in] IN
        IF ~CallbackValid(in)
        THEN /\ channel
             /\ in.refresh = None /\ in.expires = <<>>
             /\ ev' = [e EXCEPT !.http = 400, !.logs = 1, !.ended = TRUE]
             /\ UNCHANGED <<cred, credFile, pc, msg>>
        ELSE LET a == CompleteAuthorization(cred, credFile, in, now, diskOk)
                 e1 == [e EXCEPT !.credWrite = a.write]
             IN /\ cred' = a.cred
                /\ credFile' = a.file
                /\ IF a.exc # "none"
                   THEN /\ channel
                        /\ ev' = [e1 EXCEPT !.http = 500, !.logs = 1,
                                            !.exc = a.exc, !.ended = TRUE]
                        /\ UNCHANGED <<pc, msg>>
                   ELSE IF channel
                   THEN /\ pc' = [pc EXCEPT !["cb"] = "notify_send"]
                        /\ ev' = [e1 EXCEPT !.dm = "authorized"]
                        /\ UNCHANGED msg
                   ELSE /\ ev' = [e1 EXCEPT !.http = 200, !.ended = TRUE]
                        /\ UNCHANGED <<pc, msg>>
    /\ UNCHANGED <<now, ticks, diskOk, reserves, reservesFile,
                   loopRunning>>
    /\ hist' = Record(hist, ev')

(* send_admin_message returned (it logs a failed send and raises nothing);  *)
(* line 316 runs the cycle inside the handler.                              *)
NotifySent ==
    /\ pc["cb"] = "notify_send"
    /\ \E ok \in BOOLEAN :
        FetchAndPostReserves("cb",
            [Ev0("cb", "notify_sent") EXCEPT !.logs = IF ok THEN 0 ELSE 1],
            FALSE)
    /\ UNCHANGED <<now, ticks, diskOk>>
    /\ hist' = Record(hist, ev')

-----------------------------------------------------------------------------
(* The timer loop and the sends a cycle waits for *)

TimerStart ==
    /\ loopRunning
    /\ pc["timer"] = "idle"
    /\ FetchAndPostReserves("timer", Ev0("timer", "tick"), FALSE)
    /\ UNCHANGED <<now, ticks, diskOk>>
    /\ hist' = Record(hist, ev')

WarnSent(t) ==
    /\ pc[t] = "warn_send"
    /\ \E ok \in BOOLEAN :
        TokenStage(t, [Ev0(t, "warn_sent") EXCEPT !.logs = IF ok THEN 0 ELSE 1],
                   FALSE)
    /\ UNCHANGED <<now, ticks, diskOk>>
    /\ hist' = Record(hist, ev')

ReauthSent(t) ==
    /\ pc[t] = "reauth_send"
    /\ \E ok \in BOOLEAN :
        EndCycle(t, [Ev0(t, "reauth_sent") EXCEPT !.logs = IF ok THEN 0 ELSE 1],
                 "none")
    /\ UNCHANGED <<now, ticks, diskOk, cred, credFile, reserves, reservesFile>>
    /\ hist' = Record(hist, ev')

AnnounceSent(t) ==
    /\ pc[t] = "announce_send"
    /\ \E ok \in BOOLEAN :
        IF ok
        THEN EndCycle(t, [Ev0(t, "announce_sent") EXCEPT !.newly = msg[t],
                                                         !.snap = ev.snap],
                      "none")
        ELSE EndCycle(t, [Ev0(t, "announce_failed") EXCEPT !.snap = ev.snap],
                      "HTTPException")
    /\ UNCHANGED <<now, ticks, diskOk, cred, credFile, reserves, reservesFile>>
    /\ hist' = Record(hist, ev')

AdvanceTime ==
    /\ ticks < MaxTicks
    /\ \E d \in Deltas : now' = now + d
    /\ ticks' = ticks + 1
    /\ ev' = Ev0("env", "advance")
    /\ UNCHANGED <<cred, credFile, reserves, reservesFile, pc, msg,
                   loopRunning, diskOk>>
    /\ hist' = Record(hist, ev')

-----------------------------------------------------------------------------

(* The bot after construction, with no token file and no state file. *)
Boot ==
    /\ now = 0
    /\ cred = NoCred
    /\ credFile = NoCred
    /\ reserves = {}
    /\ reservesFile = {}
    /\ pc = [t \in Tasks |-> "idle"]
    /\ msg = [t \in Tasks |-> <<>>]
    /\ loopRunning = TRUE
    /\ ticks = 0
    /\ diskOk \in BOOLEAN
    /\ ev = Ev0("env", "init")

Init == Boot /\ hist = NoHist

Next ==
    \/ TimerStart
    \/ HandleOauthCallback
    \/ NotifySent
    \/ \E t \in Tasks : WarnSent(t)
    \/ \E t \in Tasks : ReauthSent(t)
    \/ \E t \in Tasks : AnnounceSent(t)
    \/ AdvanceTime

Spec == Init /\ [][Next]_vars

-----------------------------------------------------------------------------
(* The first cycle of an authorized bot, recording the snapshot it fetched. *)

ProbeCred == [access |-> "A1", refresh |-> "R1", expires |-> <<4 * WarnSeconds>>]

ProbeInit ==
    /\ now \in {0, GraceSeconds + 300}
    /\ cred = ProbeCred
    /\ credFile = ProbeCred
    /\ reserves \in {S \in SUBSET WideIds : Cardinality(S) <= MaxSnap}
    /\ reservesFile = reserves
    /\ pc = [t \in Tasks |-> "idle"]
    /\ msg = [t \in Tasks |-> <<>>]
    /\ loopRunning = TRUE
    /\ ticks = 0
    /\ diskOk \in BOOLEAN
    /\ ev = Ev0("env", "init")
    /\ hist = NoHist

ProbeCycle ==
    /\ ev.op = "init"
    /\ loopRunning
    /\ pc["timer"] = "idle"
    /\ FetchAndPostReserves("timer", Ev0("timer", "probe"), TRUE)
    /\ UNCHANGED <<now, ticks, diskOk>>
    /\ hist' = Record(hist, ev')

ProbeNext ==
    \/ ProbeCycle
    \/ AnnounceSent("timer")

ProbeSpec == ProbeInit /\ [][ProbeNext]_vars

(* The next cycle, when the API answers with the snapshot of the cycle      *)
(* before and the clock has not moved.                                      *)
RepeatCycle ==
    /\ \/ ev.op \in {"probe", "repeat"} /\ ev.ended /\ ev.diffRan
          /\ ev.exc = "none"
       \/ ev.op = "announce_sent"
    /\ loopRunning
    /\ pc["timer"] = "idle"
    /\ FetchAndPostReserves("timer",
            [Ev0("timer", "repeat") EXCEPT !.prevNewly = ev.newly], TRUE)
    /\ ev'.snap = ev.snap
    /\ UNCHANGED <<now, ticks, diskOk>>
    /\ hist' = Record(hist, ev')

RepeatNext ==
    \/ ProbeCycle
    \/ RepeatCycle
    \/ AnnounceSent("timer")

RepeatSpec == ProbeInit /\ [][RepeatNext]_vars

-----------------------------------------------------------------------------
(* The same bot on a working disk, with the history of the token checks    *)
(* kept.                                                                    *)

AuthInit == Boot /\ diskOk /\ hist = [NoHist EXCEPT !.mode = "auth"]

AuthSpec == AuthInit /\ [][Next]_vars

(* The timer cycles of an authorized bot, with the history of the delivered *)
(* announcements kept.                                                      *)

AnnounceInit ==
    /\ now = 0
    /\ cred = ProbeCred
    /\ credFile = ProbeCred
    /\ reserves = {}
    /\ reservesFile = {}
    /\ pc = [t \in Tasks |-> "idle"]
    /\ msg = [t \in Tasks |-> <<>>]
    /\ loopRunning = TRUE
    /\ ticks = 0
    /\ diskOk \in BOOLEAN
    /\ ev = Ev0("env", "init")
    /\ hist = [NoHist EXCEPT !.mode = "announce"]

AnnounceNext ==
    \/ TimerStart
    \/ AnnounceSent("timer")
    \/ AdvanceTime

AnnounceSpec == AnnounceInit /\ [][AnnounceNext]_vars


-----------------------------------------------------------------------------
(* Properties *)

(* The activation time an id was built from: the digits after its last '_'. *)
ActivatedAt(id) == IntOf(Split(id, "_")[Len(Split(id, "_"))])

IdOf(e) == e.name \o <<"_">> \o Str(e.activated_at)

(* C1: get_valid_token returns the stored token, with no refresh call and  *)
(* the credential untouched, when an access token exists and               *)
(* now < expires_at - 300; otherwise with a refresh token it calls the     *)
(* refresh endpoint exactly once and returns the new access token on       *)
(* success and None on any failure; with no refresh token it returns None. *)
(* It never raises.                                                        *)
C1_GetValidToken ==
    [][ev'.tok # "n/a" =>
        LET fresh == /\ cred.access # None
                     /\ cred.expires # <<>>
                     /\ now < cred.expires[1] - 300
        IN /\ ev'.tokexc = "none"
           /\ fresh => /\ ev'.tok = cred.access
                       /\ ev'.calls = 0
                       /\ cred' = cred
                       /\ credFile' = credFile
           /\ (~fresh /\ cred.refresh # None) =>
                /\ ev'.calls = 1
                /\ IF ev'.rresp.kind = "ok"
                   THEN ev'.tok = ev'.rresp.access /\ cred'.access = ev'.tok
                   ELSE ev'.tok = None
           /\ (~fresh /\ cred.refresh = None) =>
                ev'.tok = None /\ ev'.calls = 0 /\ cred' = cred
    ]_vars

C1_Witness ==
    /\ ev.calls = 1
    /\ ev.rresp.kind = "ok"
    /\ ev.tok = "A2"
    /\ now > 0

(* C2: refresh_access_token replaces the three fields together and saves    *)
(* them on a successful response; on every other outcome it raises and the *)
(* credential in memory and on disk is what it was before the call.        *)
C2_RefreshAllOrNothing ==
    [][ev'.calls = 1 =>
        IF ev'.rresp.kind = "ok"
        THEN /\ cred' = [access |-> ev'.rresp.access,
                         refresh |-> ev'.rresp.refresh,
                         expires |-> <<now + ev'.rresp.lifetime>>]
             /\ ev'.credWrite # "none"
             /\ diskOk => credFile' = cred'
        ELSE /\ ev'.rexc # "none"
             /\ cred' = cred
             /\ credFile' = credFile
    ]_vars

(* C3: the diff step yields currentActive = the ids of the snapshot's       *)
(* active entries, and newlyActivated = the active entries whose id is not *)
(* in the previous state, one per entry, in snapshot order; no active      *)
(* entry gives the empty set and the empty sequence.                       *)
C3_Diff ==
    (ev.op = "probe" /\ ev.diffRan /\ ev.exc = "none") =>
        LET active(e) == e.status = "active"
            fresh(e) == active(e) /\ IdOf(e) \notin ev.afterCleanup
        IN /\ ev.current =
                {IdOf(ev.snap[i]) : i \in {j \in 1..Len(ev.snap) : active(ev.snap[j])}}
           /\ ev.newly = SelectSeq(ev.snap, fresh)
           /\ (\A i \in 1..Len(ev.snap) : ~active(ev.snap[i])) =>
                (ev.current = {} /\ ev.newly = <<>>)

C3_Witness ==
    /\ ev.op = "probe" /\ ev.diffRan /\ ev.exc = "none"
    /\ Len(ev.snap) = 2
    /\ ev.snap[1] = ev.snap[2]
    /\ Len(ev.newly) = 2
    /\ ev.afterCleanup # {}

(* C4: cleanup removes exactly the ids with activatedAt <= now - 7200, the  *)
(* boundary id included, keeps the others, and saves iff it removed one.   *)
C4_CleanupExact ==
    [][ev'.cleanupRan =>
        LET due == {id \in reserves : ActivatedAt(id) <= now - 7200}
        IN /\ ev'.removed = due
           /\ ev'.afterCleanup = reserves \ due
           /\ (ev'.cleanupWrite # "none") <=> (due # {})
    ]_vars

(* C5: a cycle whose get_valid_token returned None sends the               *)
(* reauthorization message and ends; it runs no cleanup, fetch or diff,    *)
(* announces nothing and leaves the reserve state, in memory and on disk,  *)
(* as it was.                                                              *)
C5_NoTokenEndsCycle ==
    [][\A t \in Tasks :
        /\ (ev'.task = t /\ ev'.tok = None) =>
              /\ ev'.dm = "reauth"
              /\ pc'[t] = "reauth_send"
              /\ ~ev'.cleanupRan /\ ev'.gets = 0 /\ ~ev'.diffRan
              /\ reserves' = reserves /\ reservesFile' = reservesFile
              /\ msg'[t] = <<>>
        /\ (pc[t] = "reauth_send" /\ pc'[t] # "reauth_send") =>
              /\ pc'[t] = "idle" /\ ev'.ended
              /\ ~ev'.cleanupRan /\ ev'.gets = 0 /\ ~ev'.diffRan
              /\ reserves' = reserves /\ reservesFile' = reservesFile
              /\ msg'[t] = <<>>
    ]_vars

C5_Witness ==
    /\ pc["timer"] = "reauth_send"
    /\ ev.task = "timer" /\ ev.tok = None /\ ev.calls = 1
    /\ reserves # {}

(* C6: no failure of a cycle leaves the cycle: the timer loop stays         *)
(* scheduled and can start its next cycle whenever it is idle, a cycle run *)
(* by the callback handler never turns into a 500, and a suspended cycle   *)
(* can always resume.                                                      *)
C6_CycleNeverRaises ==
    /\ loopRunning
    /\ ~ev.escaped
    /\ (ev.http = 500) => (ev.op = "callback")
    /\ (pc["timer"] = "idle") => ENABLED TimerStart
    /\ \A t \in Tasks :
        (pc[t] # "idle") =>
            ENABLED (WarnSent(t) \/ ReauthSent(t) \/ AnnounceSent(t) \/ NotifySent)

C6_Witness ==
    /\ ev.task = "timer" /\ ev.ended
    /\ ev.exc = "ValueError"
    /\ pc["timer"] = "idle"

(* C7: a callback whose status is not "ok" or whose access token is         *)
(* missing is answered 400 and changes nothing: credential in memory and   *)
(* on disk unchanged, no admin message, no cycle.                          *)
C7_InvalidCallback ==
    [][(ev'.op = "callback"
          /\ (ev'.cbin.status # "ok" \/ ev'.cbin.access = None)) =>
        /\ ev'.http = 400
        /\ cred' = cred /\ credFile' = credFile
        /\ ev'.dm = "none"
        /\ pc' = pc
        /\ ev'.tok = "n/a" /\ ~ev'.cleanupRan /\ ev'.gets = 0
        /\ reserves' = reserves /\ reservesFile' = reservesFile
    ]_vars

C7_Witness ==
    /\ ev.op = "callback" /\ ev.http = 400
    /\ ev.cbin.status = "error" /\ ev.cbin.access = "A1"
    /\ cred.access = "A2"

(* C8: every callback with status "ok" and an access token overwrites the   *)
(* whole credential with the supplied values and saves it, sends the admin *)
(* message, runs one cycle at once and answers with success.               *)
C8_ValidCallback ==
    [][/\ (ev'.op = "callback"
             /\ ev'.cbin.status = "ok" /\ ev'.cbin.access # None) =>
            /\ cred'.access = ev'.cbin.access
            /\ cred'.refresh = ev'.cbin.refresh
            /\ cred'.expires # <<>>
            /\ IntOk(ev'.cbin.expires) =>
                    cred'.expires = <<IntOf(ev'.cbin.expires)>>
            /\ ev'.credWrite # "none"
            /\ ev'.dm = "authorized"
            /\ pc'["cb"] = "notify_send"
            /\ ev'.http # 500
       /\ (pc["cb"] = "notify_send" /\ pc'["cb"] # "notify_send") =>
            ev'.op = "notify_sent"
       /\ (ev'.task = "cb" /\ ev'.ended /\ ev'.op # "callback") =>
            ev'.http = 200
    ]_vars

(* C9: a cycle that completes the diff replaces the reserve state by        *)
(* currentActive and saves it iff currentActive differs from the previous  *)
(* state; when they are equal it writes neither memory nor disk.           *)
C9_WriteOnChange ==
    [][(ev'.diffRan /\ ev'.exc = "none") =>
        LET prev == ev'.afterCleanup
            cur == ev'.current
        IN IF cur # prev
           THEN /\ reserves' = cur
                /\ ev'.trackWrite # "none"
                /\ diskOk => reservesFile' = cur
           ELSE /\ reserves' = prev
                /\ ev'.trackWrite = "none"
                /\ (ev'.cleanupWrite = "none") => reservesFile' = reservesFile
                /\ (ev'.cleanupWrite = "ok") => reservesFile' = prev
    ]_vars

C9_Witness ==
    /\ ev.diffRan /\ ev.exc = "none"
    /\ ev.afterCleanup # {}
    /\ ev.current # ev.afterCleanup
    /\ ev.trackWrite = "ok"
    /\ reservesFile = ev.current

(* C10: a snapshot request that fails in transport or is answered with a    *)
(* status outside 2xx is logged and ends the cycle: no diff, the reserve   *)
(* state as cleanup left it, no announcement, no second request.           *)
C10_FetchFailureAborts ==
    [][(ev'.gets > 0
          /\ (ev'.fresp.kind = "transport"
                \/ ev'.fresp.status \notin 200..299)) =>
        /\ ev'.errlog
        /\ ev'.gets = 1
        /\ ~ev'.diffRan
        /\ reserves' = ev'.afterCleanup
        /\ ev'.ended
        /\ pc'[ev'.task] = "idle"
        /\ msg'[ev'.task] = <<>>
    ]_vars

(* C11: when the diff runs again on the unchanged snapshot with the first   *)
(* run's currentActive as its previous state, its newlyActivated is empty  *)
(* and it writes the reserve state neither to memory nor to disk.          *)
C11_DiffIdempotent ==
    [][(ev'.op = "repeat" /\ ev'.diffRan /\ ev'.exc = "none"
          /\ ev'.afterCleanup = reserves) =>
        /\ ev'.newly = <<>>
        /\ ev'.current = reserves
        /\ ev'.trackWrite = "none"
        /\ reserves' = reserves
        /\ reservesFile' = reservesFile
        /\ pc'["timer"] = "idle"
    ]_vars

C11_Witness ==
    /\ ev.op = "repeat" /\ ev.diffRan /\ ev.exc = "none"
    /\ Len(ev.prevNewly) = 2
    /\ ev.afterCleanup = ev.current
    /\ ev.newly = <<>>
    /\ Cardinality(ev.current) = 2

(* C12: in every reachable state a credential whose access token is set     *)
(* has its expiry set.                                                     *)
C12_AccessImpliesExpiry ==
    cred.access # None => cred.expires # <<>>

(* C13: the credential changes only as a whole: every step that changes it  *)
(* is a completed authorization that wrote the three supplied values, or a *)
(* successful refresh that wrote the three values of the response; a       *)
(* callback answered 500 or a refresh that raised leaves it as it was.     *)
C13_ReplacedWhole ==
    [][cred' # cred =>
        \/ /\ ev'.op = "callback" /\ ev'.exc = "none" /\ ev'.http # 500
           /\ cred'.access = ev'.cbin.access
           /\ cred'.refresh = ev'.cbin.refresh
           /\ cred'.expires # <<>>
        \/ /\ ev'.calls = 1 /\ ev'.rexc = "none"
           /\ cred' = [access |-> ev'.rresp.access,
                       refresh |-> ev'.rresp.refresh,
                       expires |-> <<now + ev'.rresp.lifetime>>]
    ]_vars

(* C14: no cycle starts while the cycle of the other task has started and   *)
(* has not yet reached its persistence step (it is suspended in the send   *)
(* of the expiry warning).                                                 *)
C14_NoOverlap ==
    [][\A t \in Tasks :
        (ev'.task = t /\ ev'.op \in {"tick", "notify_sent"}) =>
            \A u \in Tasks \ {t} : pc[u] # "warn_send"
    ]_vars

(* C15: once get_valid_token has returned None, no later call returns a    *)
(* token unless a callback completed an authorization in between; a call   *)
(* that refreshes successfully returns the new token with the new expiry,  *)
(* and a call whose refresh fails or that has no refresh token returns     *)
(* None.                                                                   *)
C15_AuthStateMachine ==
    [][ev'.tok # "n/a" =>
        /\ hist.unauth => ev'.tok = None
        /\ (ev'.calls = 1 /\ ev'.rexc = "none") =>
              /\ ev'.tok = ev'.rresp.access
              /\ cred'.expires = <<now + ev'.rresp.lifetime>>
        /\ ((ev'.calls = 1 /\ ev'.rexc # "none")
              \/ (ev'.calls = 0 /\ ~TokenFresh(cred, now))) =>
              ev'.tok = None
    ]_vars

(* C16: at the end of every step of a cycle in which cleanup ran at time    *)
(* now, the reserve state holds no id whose activatedAt is older than      *)
(* now - 7200, whether or not the snapshot still reports it active.        *)
C16_RetentionBound ==
    [][ev'.cleanupRan =>
        \A id \in reserves' : ~(ActivatedAt(id) < now - 7200)
    ]_vars

(* C17: a cycle sends the expiry warning exactly when the credential's     *)
(* expiry is set and less than 86400 s ahead, and sends none when the      *)
(* expiry is unset or at least 86400 s ahead; after the warning, sent or   *)
(* failed, the cycle goes on with the token check.                         *)
C17_EarlyWarning ==
    [][/\ ev'.op \in {"tick", "notify_sent"} =>
            ((ev'.dm = "warn" /\ pc'[ev'.task] = "warn_send")
                <=> (cred.expires # <<>> /\ cred.expires[1] - now < 86400))
       /\ \A t \in Tasks :
            (pc[t] = "warn_send" /\ pc'[t] # "warn_send") =>
                (ev'.op = "warn_sent" /\ ev'.tok # "n/a")
    ]_vars

(* C18: no id is delivered to the channel twice: an announcement that is   *)
(* delivered holds no id that an earlier delivered announcement held.      *)
C18_NoDuplicateAnnouncement ==
    [][ev'.op = "announce_sent" =>
        NewlyIds(ev'.newly) \cap hist.announced = {}
    ]_vars

(* C19: a cycle whose diff found new activations has replaced and saved    *)
(* the reserve state when it starts the one send of the announcement (or   *)
(* finds no channel and sends nothing); a cycle with no new activation     *)
(* sends nothing; the end of the send, delivered or failed, ends the cycle *)
(* and leaves the reserve state in memory and on disk as it is; and an id  *)
(* that is in the state when the diff runs is never among the new ones.    *)
C19_PersistBeforeDeliver ==
    [][/\ (ev'.diffRan /\ ev'.exc = "none") =>
            LET t == ev'.task IN
            IF ev'.newly # <<>>
            THEN /\ reserves' = ev'.current
                 /\ ev'.trackWrite # "none"
                 /\ diskOk => reservesFile' = ev'.current
                 /\ \/ pc'[t] = "announce_send" /\ msg'[t] = ev'.newly
                    \/ pc'[t] = "idle" /\ msg'[t] = <<>> /\ ev'.ended
                 /\ \A i \in 1..Len(ev'.newly) :
                        IdOf(ev'.newly[i]) \notin ev'.afterCleanup
            ELSE pc'[t] = "idle" /\ msg'[t] = <<>>
       /\ \A t \in Tasks :
            (pc[t] = "announce_send" /\ pc'[t] # "announce_send") =>
                /\ pc'[t] = "idle" /\ msg'[t] = <<>> /\ ev'.ended
                /\ ev'.op \in {"announce_sent", "announce_failed"}
                /\ reserves' = reserves
                /\ reservesFile' = reservesFile
    ]_vars

C19_Witness ==
    /\ ev.op = "announce_failed" /\ ev.task = "timer"
    /\ pc["timer"] = "idle"
    /\ reserves # {}
    /\ reservesFile = reserves

(* C20: cleanup never fails on an id the diff step stored, whatever the     *)
(* reserve name: no cycle ends at the cleanup step, before the snapshot    *)
(* request, and cleanup removes every stored id that is older than         *)
(* now - 7200.                                                             *)
C20_CleanupHandlesStoredIds ==
    [][ev'.cleanupRan =>
        /\ ~(ev'.ended /\ ev'.gets = 0)
        /\ \A id \in reserves :
              ActivatedAt(id) < now - 7200 => id \in ev'.removed
    ]_vars

====
